---- MODULE Spec2Model ----
(***************************************************************************)
(* Model of system/lvm_pvs.py: the Ansible module that creates and removes *)
(* LVM physical volumes.  One run of main() is modelled as the steps       *)
(* Validate -> Inventory -> Reconcile* -> Finish; every external command   *)
(* (pvs, dmsetup, pvcreate, pvremove) returns a nondeterministic exit      *)
(* code.  The host (block devices, symlinks, the physical volumes that     *)
(* exist) is the environment the run reads and mutates.                    *)
(*                                                                         *)
(* A path is a sequence of tokens, so that startswith and string           *)
(* concatenation are prefix test and \o:  "/dev/dm-0" is                   *)
(* <<"/dev/", "dm-", "0">>.                                                *)
(***************************************************************************)
EXTENDS Integers, Sequences, FiniteSets, TLC

(* ------------------------------ bounds --------------------------------- *)
\* longest list of devices given in the pvs parameter
MaxDevs == 2
\* number of consecutive runs of the same task on the same host
MaxRuns == 2

(* ------------------------------ the host ------------------------------- *)
SDA1   == <<"/dev/", "sda1">>
SDB1   == <<"/dev/", "sdb1">>
DM0    == <<"/dev/", "dm-", "0">>
MAPVOL == <<"/dev/", "mapper/", "vol">>
LABEL  == <<"/dev/", "disk/by-label/", "data">>
GONE   == <<"/dev/", "sdz9">>

\* block device nodes that exist on the host
BlockDevices == {SDA1, SDB1, DM0}
\* symbolic links of the host: link -> target
Symlinks == (MAPVOL :> DM0) @@ (LABEL :> SDA1)
\* paths a task may name in its pvs parameter
RawPaths == {SDA1, SDB1, DM0, MAPVOL, LABEL, GONE}
\* what "dmsetup info -C --noheadings -o name <dev>" prints for a node
DmsetupOutput == (DM0 :> <<"vol", "\n">>)
\* exit codes of the external commands: 0 success, 5 the LVM tools' failure
ExitCodes == {0, 5}

\* a fresh physical volume, as pvcreate leaves it
FreshPv == [vg_name |-> "", pv_size |-> "100B", pv_free |-> "100B"]
PvRecords == [vg_name : {"", "vg0"}, pv_size : {"100B"}, pv_free : {"100B", "60B"}]
\* the physical volumes the host may hold when the first run starts
HostStates ==
    { s \in UNION { [D -> PvRecords] : D \in SUBSET BlockDevices } :
        /\ (DM0 \in DOMAIN s => s[DM0] = FreshPv)
        /\ (SDB1 \in DOMAIN s => (s[SDB1].pv_free = "60B" <=> s[SDB1].vg_name = "vg0")) }

\* RealPath with the symlinks left unresolved
RealPath_Unresolved(p) == p

\* os.path.realpath
RealPath(p) == IF p \in DOMAIN Symlinks THEN Symlinks[p] ELSE p
\* os.path.exists
Exists(p) == RealPath(p) \in BlockDevices

(* ---------------------------- pure helpers ----------------------------- *)
\* str.startswith
StartsWith(s, prefix) ==
    /\ Len(s) >= Len(prefix)
    /\ SubSeq(s, 1, Len(prefix)) = prefix

\* str.rstrip on a token sequence: drop trailing whitespace tokens
RECURSIVE RStrip(_)
RStrip(s) ==
    IF s # <<>> /\ s[Len(s)] \in {"\n", " "}
    THEN RStrip(SubSeq(s, 1, Len(s) - 1))
    ELSE s

dm_prefix == <<"/dev/", "dm-">>
mapper_prefix == <<"/dev/", "mapper/">>

\* find_mapper_device_name, on the output of a successful dmsetup
find_mapper_device_name(dm_device) ==
    mapper_prefix \o RStrip(DmsetupOutput[dm_device])

\* the dict update pvs[key] = rec
DictSet(d, key, rec) ==
    [k \in DOMAIN d \cup {key} |-> IF k = key THEN rec ELSE d[k]]

\* parse_pvs on the split lines <<pv_name, vg_name, pv_size, pv_free>>, with
\* every dmsetup call succeeding
RECURSIVE ParseFrom(_, _)
ParseFrom(lines, pvs) ==
    IF lines = <<>> THEN pvs
    ELSE LET parts == Head(lines)
             key == IF StartsWith(parts[1], dm_prefix)
                    THEN find_mapper_device_name(parts[1])
                    ELSE parts[1]
         IN ParseFrom(Tail(lines),
                      DictSet(pvs, key, [vg_name |-> parts[2],
                                         pv_size |-> parts[3],
                                         pv_free |-> parts[4]]))

parse_pvs(lines) == ParseFrom(lines, <<>>)


\* str.split() on a token sequence: drop the whitespace tokens
RECURSIVE Split(_)
Split(s) ==
    IF s = <<>> THEN <<>>
    ELSE IF Head(s) \in {" ", "\n"} THEN Split(Tail(s))
    ELSE <<Head(s)>> \o Split(Tail(s))

(* ------------------------- the listing command ------------------------- *)
\* the /dev/mapper alias under which pvs may print a device-mapper node
DmAlias == (DM0 :> MAPVOL)
DeviceOrder == <<SDA1, SDB1, DM0>>

\* the name pvs prints for a device: a device-mapper node is printed as the
\* kernel node or as its alias, depending on the host's LVM configuration
PvsName(dev, style) ==
    IF dev \in DOMAIN DmAlias /\ style = "alias" THEN DmAlias[dev] ELSE dev

\* output of "pvs --noheadings -o pv_name,vg_name,pv_size,pv_free --units b
\* --separator ';'" after splitlines/strip/split(';'): one line per volume
RECURSIVE ListingFrom(_, _, _)
ListingFrom(order, h, style) ==
    IF order = <<>> THEN <<>>
    ELSE LET dev == Head(order)
             rest == ListingFrom(Tail(order), h, style)
         IN IF dev \in DOMAIN h
            THEN << <<PvsName(dev, style), h[dev].vg_name,
                      h[dev].pv_size, h[dev].pv_free>> >> \o rest
            ELSE rest

Listing(h, style) == ListingFrom(DeviceOrder, h, style)

\* the lines of a listing for which parse_pvs calls dmsetup
DmLines(lines) == SelectSeq(lines, LAMBDA parts : StartsWith(parts[1], dm_prefix))

(* --------------------------- the decisions ----------------------------- *)
\* FirstMissing with the check made on the first device only
FirstMissing_HeadOnly(list) ==
    IF list # <<>> /\ ~Exists(list[1]) THEN 1 ELSE 0

\* the batch check of state=present: index of the first device of the list
\* that does not exist, 0 when all exist
FirstMissing(list) ==
    IF \E i \in 1..Len(list) : ~Exists(list[i])
    THEN CHOOSE i \in 1..Len(list) :
            /\ ~Exists(list[i])
            /\ \A j \in 1..(i - 1) : Exists(list[j])
    ELSE 0

\* PresentAction with the membership test inverted
PresentAction_Inverted(dev, data, check_mode) ==
    IF dev \in DOMAIN data
    THEN IF check_mode THEN "report" ELSE "create"
    ELSE "noop"

\* PresentAction without the look-up in the inventory
PresentAction_NoLookup(dev, data, check_mode) ==
    IF check_mode THEN "report" ELSE "create"

\* PresentAction with check mode reporting a change before the look-up
PresentAction_ReportFirst(dev, data, check_mode) ==
    IF check_mode THEN "report"
    ELSE IF dev \notin DOMAIN data THEN "create" ELSE "noop"

\* what the state=present loop does with one device
PresentAction(dev, data, check_mode) ==
    IF dev \notin DOMAIN data
    THEN IF check_mode THEN "report" ELSE "create"
    ELSE "noop"

\* AbsentAction with "or" for "and" in the in-use test
AbsentAction_Or(dev, data, check_mode, force) ==
    IF dev \in DOMAIN data
    THEN IF check_mode THEN "report"
         ELSE IF ~force
              THEN IF data[dev].pv_size = data[dev].pv_free \/ data[dev].vg_name = ""
                   THEN "graceful"
                   ELSE "refuse"
              ELSE "forced"
    ELSE "noop"

\* AbsentAction with the in-use test reduced to the sizes
AbsentAction_SizesOnly(dev, data, check_mode, force) ==
    IF dev \in DOMAIN data
    THEN IF check_mode THEN "report"
         ELSE IF ~force
              THEN IF data[dev].pv_size = data[dev].pv_free
                   THEN "graceful"
                   ELSE "refuse"
              ELSE "forced"
    ELSE "noop"

\* AbsentAction with the in-use test made before force is looked at
AbsentAction_TestFirst(dev, data, check_mode, force) ==
    IF dev \in DOMAIN data
    THEN IF check_mode THEN "report"
         ELSE IF data[dev].pv_size = data[dev].pv_free /\ data[dev].vg_name = ""
              THEN IF force THEN "forced" ELSE "graceful"
              ELSE "refuse"
    ELSE "noop"

\* AbsentAction with check mode honoured only when force is off
AbsentAction_CheckUnlessForce(dev, data, check_mode, force) ==
    IF dev \in DOMAIN data
    THEN IF check_mode /\ ~force THEN "report"
         ELSE IF ~force
              THEN IF data[dev].pv_size = data[dev].pv_free /\ data[dev].vg_name = ""
                   THEN "graceful"
                   ELSE "refuse"
              ELSE "forced"
    ELSE "noop"

\* what the state=absent loop does with one device
AbsentAction(dev, data, check_mode, force) ==
    IF dev \in DOMAIN data
    THEN IF check_mode THEN "report"
         ELSE IF ~force
              THEN IF data[dev].pv_size = data[dev].pv_free /\ data[dev].vg_name = ""
                   THEN "graceful"
                   ELSE "refuse"
              ELSE "forced"
    ELSE "noop"

(* ------------------------------ the state ------------------------------ *)
VARIABLES
    host,       \* physical volumes of the host: block device -> record
    params,     \* module.params and module.check_mode of the task
    pc,         \* position of main(): start, inventory, reconcile, done
    dev_list,   \* main's dev_list
    pvs_data,   \* main's pvs_data
    idx,        \* position of the reconcile loop in dev_list
    changed,    \* main's changed
    cmds,       \* the external commands this run has invoked, in order
    result,     \* what the run handed to exit_json / fail_json
    run,        \* number of the current run of the task
    prev        \* result of the previous run of the task

vars == <<host, params, pc, dev_list, pvs_data, idx, changed, cmds, result, run, prev>>

PvOptionStrings == { <<>>, <<"--metadatacopies", " ", "2">> }
DeviceLists == UNION { [1..n -> RawPaths] : n \in 0..MaxDevs }
\* the tasks: a parameter that the run of a task never reads (force when
\* state=present, pv_options when no pvcreate can run) stays at its default
Params ==
    { p \in [state : {"present", "absent"}, force : BOOLEAN, check_mode : BOOLEAN,
             pvs : DeviceLists, pv_options : PvOptionStrings] :
        /\ (p.state = "present" => ~p.force)
        /\ (p.state = "absent" \/ p.check_mode => p.pv_options = <<>>) }

\* a result: msg is the message text, dev and vg_name the device and group the
\* message is formatted with
NoResult == [kind |-> "none", changed |-> FALSE, msg |-> "", dev |-> <<>>,
             vg_name |-> "", rc |-> 0]
\* module.exit_json(changed=c)
ExitJson(c) == [kind |-> "exit", changed |-> c, msg |-> "", dev |-> <<>>,
                vg_name |-> "", rc |-> 0]
\* module.fail_json(msg=m % (dev, vg), rc=rc)
FailJson(m, dev, vg, rc) == [kind |-> "fail", changed |-> FALSE, msg |-> m, dev |-> dev,
                             vg_name |-> vg, rc |-> rc]
\* an uncaught exception: the run ends with a traceback and no result
Crash(m) == [kind |-> "crash", changed |-> FALSE, msg |-> m, dev |-> <<>>,
             vg_name |-> "", rc |-> 1]

Command(c, flags, dev, rc) == [cmd |-> c, flags |-> flags, dev |-> dev, rc |-> rc]

Init ==
    /\ host \in HostStates
    /\ params \in Params
    /\ pc = "start"
    /\ dev_list = <<>>
    /\ pvs_data = <<>>
    /\ idx = 1
    /\ changed = FALSE
    /\ cmds = <<>>
    /\ result = NoResult
    /\ run = 1
    /\ prev = NoResult


\* a run ends: nothing but pc and result changes any more
End(r) ==
    /\ pc' = "done"
    /\ result' = r

(* lines 111-128: the parameters, the empty list, realpath, the batch check *)
Validate ==
    /\ pc = "start"
    /\ IF params.pvs # <<>>
       THEN LET list == [i \in 1..Len(params.pvs) |-> RealPath(params.pvs[i])]
                m == FirstMissing(list)
            IN /\ dev_list' = list
               /\ IF params.state = "present" /\ m # 0
                  THEN End(FailJson("Device %s not found.", list[m], "", 0))
                  ELSE pc' = "inventory" /\ UNCHANGED result
       ELSE /\ UNCHANGED dev_list
            /\ IF params.state = "present"
               THEN End(FailJson("No physical volumes given.", <<>>, "", 0))
               \* dev_list was never assigned: enumerate(dev_list) raises
               ELSE End(Crash("UnboundLocalError: dev_list"))
    /\ UNCHANGED <<host, params, pvs_data, idx, changed, cmds, run, prev>>

\* Inventory with the exit code of dmsetup left unchecked
Inventory_IgnoreDmsetup ==
    /\ pc = "inventory"
    /\ \E found \in BOOLEAN :
         IF ~found
         THEN /\ End(FailJson("Failed to find required executable", <<>>, "", 0))
              /\ UNCHANGED <<cmds, pvs_data>>
         ELSE \E rc \in ExitCodes :
           LET pvs_cmd == Command("pvs", <<>>, <<>>, rc)
           IN IF rc # 0
              THEN /\ End(FailJson("Failed executing pvs command.", <<>>, "", rc))
                   /\ cmds' = Append(cmds, pvs_cmd)
                   /\ UNCHANGED pvs_data
              ELSE \E style \in {"node", "alias"}, dm_rc \in ExitCodes :
                LET lines == Listing(host, style)
                    dm == DmLines(lines)
                IN /\ pvs_data' = parse_pvs(lines)
                   /\ cmds' = Append(cmds, pvs_cmd) \o
                         [i \in 1..Len(dm) |-> Command("dmsetup", <<>>, dm[i][1], dm_rc)]
                   /\ pc' = "reconcile"
                   /\ UNCHANGED result
    /\ idx' = 1
    /\ changed' = FALSE
    /\ UNCHANGED <<host, params, dev_list, run, prev>>

(* lines 130-139: the binaries, the listing command, parse_pvs *)
Inventory ==
    /\ pc = "inventory"
    /\ \E found \in BOOLEAN :
         IF ~found
         THEN /\ End(FailJson("Failed to find required executable", <<>>, "", 0))
              /\ UNCHANGED <<cmds, pvs_data>>
         ELSE \E rc \in ExitCodes :
           LET pvs_cmd == Command("pvs", <<>>, <<>>, rc)
           IN IF rc # 0
              THEN /\ End(FailJson("Failed executing pvs command.", <<>>, "", rc))
                   /\ cmds' = Append(cmds, pvs_cmd)
                   /\ UNCHANGED pvs_data
              ELSE \E style \in {"node", "alias"} :
                LET lines == Listing(host, style)
                    dm == DmLines(lines)
                IN IF dm = <<>>
                   THEN /\ pvs_data' = parse_pvs(lines)
                        /\ cmds' = Append(cmds, pvs_cmd)
                        /\ pc' = "reconcile"
                        /\ UNCHANGED result
                   ELSE \E dm_found \in BOOLEAN, dm_rc \in ExitCodes :
                     IF ~dm_found
                     THEN /\ End(FailJson("Failed to find required executable", <<>>, "", 0))
                          /\ cmds' = Append(cmds, pvs_cmd)
                          /\ UNCHANGED pvs_data
                     ELSE IF dm_rc # 0
                     THEN /\ End(FailJson("Failed executing dmsetup command.", <<>>, "", dm_rc))
                          /\ cmds' = cmds \o <<pvs_cmd, Command("dmsetup", <<>>, dm[1][1], dm_rc)>>
                          /\ UNCHANGED pvs_data
                     ELSE /\ pvs_data' = parse_pvs(lines)
                          /\ cmds' = Append(cmds, pvs_cmd) \o
                                [i \in 1..Len(dm) |-> Command("dmsetup", <<>>, dm[i][1], 0)]
                          /\ pc' = "reconcile"
                          /\ UNCHANGED result
    /\ idx' = 1
    /\ changed' = FALSE
    /\ UNCHANGED <<host, params, dev_list, run, prev>>

\* the host after a successful pvcreate
Created(h, dev) == DictSet(h, RealPath(dev), FreshPv)
\* the host after a successful pvremove
Removed(h, dev) == [d \in DOMAIN h \ {RealPath(dev)} |-> h[d]]

\* ReconcilePresent with the inventory queried again after each pvcreate
ReconcilePresent_Requery ==
    /\ pc = "reconcile"
    /\ params.state = "present"
    /\ idx <= Len(dev_list)
    /\ LET dev == dev_list[idx]
           act == PresentAction(dev, pvs_data, params.check_mode)
       IN   IF act = "report"
            THEN /\ End(ExitJson(TRUE))
                 /\ UNCHANGED <<host, idx, changed, cmds, pvs_data>>
            ELSE IF act = "create"
            THEN \E rc \in ExitCodes :
                 IF rc = 0
                 THEN /\ cmds' = cmds \o <<Command("pvcreate", Split(params.pv_options), dev, rc),
                                           Command("pvs", <<>>, <<>>, 0)>>
                      /\ changed' = TRUE
                      /\ host' = Created(host, dev)
                      /\ pvs_data' = parse_pvs(Listing(Created(host, dev), "alias"))
                      /\ idx' = idx + 1
                      /\ UNCHANGED <<pc, result>>
                 ELSE /\ cmds' = Append(cmds, Command("pvcreate", Split(params.pv_options), dev, rc))
                      /\ End(FailJson("Creating physical volume '%s' failed", dev, "", rc))
                      /\ UNCHANGED <<host, idx, changed, pvs_data>>
            ELSE /\ idx' = idx + 1
                 /\ UNCHANGED <<host, pc, changed, cmds, result, pvs_data>>
    /\ UNCHANGED <<params, dev_list, run, prev>>

(* lines 141-150: one round of the state=present loop *)
ReconcilePresent ==
    /\ pc = "reconcile"
    /\ params.state = "present"
    /\ idx <= Len(dev_list)
    /\ LET dev == dev_list[idx]
           act == PresentAction(dev, pvs_data, params.check_mode)
       IN   IF act = "report"
            THEN /\ End(ExitJson(TRUE))
                 /\ UNCHANGED <<host, idx, changed, cmds>>
            ELSE IF act = "create"
            THEN \E rc \in ExitCodes :
                 /\ cmds' = Append(cmds, Command("pvcreate", Split(params.pv_options), dev, rc))
                 /\ IF rc = 0
                    THEN /\ changed' = TRUE
                         /\ host' = Created(host, dev)
                         /\ idx' = idx + 1
                         /\ UNCHANGED <<pc, result>>
                    ELSE /\ End(FailJson("Creating physical volume '%s' failed", dev, "", rc))
                         /\ UNCHANGED <<host, idx, changed>>
            ELSE /\ idx' = idx + 1
                 /\ UNCHANGED <<host, pc, changed, cmds, result>>
    /\ UNCHANGED <<params, dev_list, pvs_data, run, prev>>

\* ReconcileAbsent with a failed pvremove skipped instead of ending the run
ReconcileAbsent_KeepGoing ==
    /\ pc = "reconcile"
    /\ params.state = "absent"
    /\ idx <= Len(dev_list)
    /\ LET dev == dev_list[idx]
           act == AbsentAction(dev, pvs_data, params.check_mode, params.force)
       IN   IF act = "report"
            THEN /\ End(ExitJson(TRUE))
                 /\ UNCHANGED <<host, idx, changed, cmds>>
            ELSE IF act = "refuse"
            THEN /\ End(FailJson("Refuse to remove physical volume %s being in use by volume group %s without force=yes",
                                 dev, pvs_data[dev].vg_name, 0))
                 /\ UNCHANGED <<host, idx, changed, cmds>>
            ELSE IF act \in {"graceful", "forced"}
            THEN \E rc \in ExitCodes :
                 /\ cmds' = Append(cmds, Command("pvremove",
                                     IF act = "forced" THEN <<"-ff", "-y">> ELSE <<>>, dev, rc))
                 /\ changed' = (changed \/ rc = 0)
                 /\ host' = IF rc = 0 THEN Removed(host, dev) ELSE host
                 /\ idx' = idx + 1
                 /\ UNCHANGED <<pc, result>>
            ELSE /\ idx' = idx + 1
                 /\ UNCHANGED <<host, pc, changed, cmds, result>>
    /\ UNCHANGED <<params, dev_list, pvs_data, run, prev>>

(* lines 151-171: one round of the state=absent loop *)
ReconcileAbsent ==
    /\ pc = "reconcile"
    /\ params.state = "absent"
    /\ idx <= Len(dev_list)
    /\ LET dev == dev_list[idx]
           act == AbsentAction(dev, pvs_data, params.check_mode, params.force)
       IN   IF act = "report"
            THEN /\ End(ExitJson(TRUE))
                 /\ UNCHANGED <<host, idx, changed, cmds>>
            ELSE IF act = "refuse"
            THEN /\ End(FailJson("Refuse to remove physical volume %s being in use by volume group %s without force=yes",
                                 dev, pvs_data[dev].vg_name, 0))
                 /\ UNCHANGED <<host, idx, changed, cmds>>
            ELSE IF act \in {"graceful", "forced"}
            THEN \E rc \in ExitCodes :
                 /\ cmds' = Append(cmds, Command("pvremove",
                                     IF act = "forced" THEN <<"-ff", "-y">> ELSE <<>>, dev, rc))
                 /\ IF rc = 0
                    THEN /\ changed' = TRUE
                         /\ host' = Removed(host, dev)
                         /\ idx' = idx + 1
                         /\ UNCHANGED <<pc, result>>
                    ELSE /\ End(FailJson("Failed to remove physical volume %s", dev, "", rc))
                         /\ UNCHANGED <<host, idx, changed>>
            ELSE /\ idx' = idx + 1
                 /\ UNCHANGED <<host, pc, changed, cmds, result>>
    /\ UNCHANGED <<params, dev_list, pvs_data, run, prev>>

\* Finish reporting changed=False whatever the loop did
Finish_Unchanged ==
    /\ pc = "reconcile"
    /\ idx > Len(dev_list)
    /\ End(ExitJson(FALSE))
    /\ UNCHANGED <<host, params, dev_list, pvs_data, idx, changed, cmds, run, prev>>

(* line 173: the loop is over *)
Finish ==
    /\ pc = "reconcile"
    /\ idx > Len(dev_list)
    /\ End(ExitJson(changed))
    /\ UNCHANGED <<host, params, dev_list, pvs_data, idx, changed, cmds, run, prev>>

(* after a run that succeeded, the same task is run again on the host that
   run left behind *)
Rerun ==
    /\ pc = "done"
    /\ result.kind = "exit"
    /\ run < MaxRuns
    /\ run' = run + 1
    /\ prev' = result
    /\ pc' = "start"
    /\ dev_list' = <<>>
    /\ pvs_data' = <<>>
    /\ idx' = 1
    /\ changed' = FALSE
    /\ cmds' = <<>>
    /\ result' = NoResult
    /\ UNCHANGED <<host, params>>

Next ==
    \/ Validate
    \/ Inventory
    \/ ReconcilePresent
    \/ ReconcileAbsent
    \/ Finish
    \/ Rerun

Spec == Init /\ [][Next]_vars

(* --------------------------- reading a run ----------------------------- *)
\* the mutating commands of a run, in order
Mutations == SelectSeq(cmds, LAMBDA c : c.cmd \in {"pvcreate", "pvremove"})
TypeOK ==
    /\ pc \in {"start", "inventory", "reconcile", "done"}
    /\ result.kind \in {"none", "exit", "fail", "crash"}
    /\ (pc = "done") = (result.kind # "none")
    /\ idx \in 1..(Len(dev_list) + 1)
    /\ run \in 1..MaxRuns


\* the run got past the listing and parse_pvs: pvs_data is the inventory
LoopMessages == { "Creating physical volume '%s' failed",
                  "Failed to remove physical volume %s",
                  "Refuse to remove physical volume %s being in use by volume group %s without force=yes" }
InventoryRead ==
    \/ pc = "reconcile"
    \/ /\ pc = "done"
       /\ \/ result.kind = "exit"
          \/ result.kind = "fail" /\ result.msg \in LoopMessages

RefuseMsg == "Refuse to remove physical volume %s being in use by volume group %s without force=yes"
\* the devices of the mutating commands, in order
MutatedDevs == [i \in 1..Len(Mutations) |-> Mutations[i].dev]
\* the entries of dev_list that are no keys of the inventory
AbsentEntries == SelectSeq(dev_list, LAMBDA d : d \notin DOMAIN pvs_data)
\* how many pvcreate commands the run has invoked on a device
CreateCount(d) ==
    Cardinality({ i \in 1..Len(cmds) : cmds[i].cmd = "pvcreate" /\ cmds[i].dev = d })
\* a state=present run, not in check mode, that ended in success
CreatedAll ==
    /\ pc = "done"
    /\ params.state = "present"
    /\ ~params.check_mode
    /\ result.kind = "exit"

(* ------------------------------- C1 ------------------------------------ *)
\* C1 as stated: a successful state=present run outside check mode has invoked
\* pvcreate exactly once on each requested device that is absent from the
\* inventory, and ends with changed=true when there is such a device.
C1_OncePerDevice ==
    CreatedAll =>
        /\ \A i \in 1..Len(dev_list) :
              dev_list[i] \notin DOMAIN pvs_data => CreateCount(dev_list[i]) = 1
        /\ (AbsentEntries # <<>> => result.changed)

\* C1 as amended: a successful state=present run outside check mode has invoked
\* pvcreate exactly once per ENTRY of the normalized device list whose path is
\* no key of the inventory, in list order, each with exit code 0 and nothing
\* else mutating; it ends with changed=true exactly when there is such an entry.
C1_OncePerEntry ==
    CreatedAll =>
        /\ MutatedDevs = AbsentEntries
        /\ \A i \in 1..Len(Mutations) :
              Mutations[i].cmd = "pvcreate" /\ Mutations[i].rc = 0
        /\ result.changed = (AbsentEntries # <<>>)

\* a device named twice (here through a symlink or not) was created twice
C1_Witness ==
    /\ CreatedAll
    /\ Len(dev_list) >= 2
    /\ dev_list[1] = dev_list[2]
    /\ Len(Mutations) >= 2
    /\ result.changed

(* ------------------------------- C2 ------------------------------------ *)
\* C2: when every entry of the device list is a key of the inventory, a
\* state=present run (check mode or not) invokes no pvcreate and no pvremove
\* and ends with changed=false.
C2_PresentNoop ==
    ( /\ params.state = "present"
      /\ InventoryRead
      /\ \A i \in 1..Len(dev_list) : dev_list[i] \in DOMAIN pvs_data )
    => /\ Mutations = <<>>
       /\ (pc = "done" => result = ExitJson(FALSE))

C2_Witness ==
    /\ pc = "done"
    /\ params.state = "present"
    /\ ~params.check_mode
    /\ Len(dev_list) >= 2
    /\ dev_list[1] # dev_list[2]
    /\ \A i \in 1..Len(dev_list) : dev_list[i] \in DOMAIN pvs_data
    /\ result = ExitJson(FALSE)
    /\ Mutations = <<>>

(* ------------------------------- C3 ------------------------------------ *)
\* C3: when a state=present run outside check mode has ended with
\* changed=true, the next run of the same task, whose inventory is read from
\* the host the first run left behind, invokes no mutating command and ends
\* with changed=false.
C3_Idempotent ==
    ( /\ run >= 2
      /\ params.state = "present"
      /\ ~params.check_mode
      /\ prev = ExitJson(TRUE)
      /\ InventoryRead )
    => /\ Mutations = <<>>
       /\ (pc = "done" => result = ExitJson(FALSE))


\* the reconcile loop of a state=absent run outside check mode stands at a
\* device that is a key of the inventory
AtListedDevice(force) ==
    /\ pc = "reconcile"
    /\ params.state = "absent"
    /\ params.force = force
    /\ ~params.check_mode
    /\ idx <= Len(dev_list)
    /\ dev_list[idx] \in DOMAIN pvs_data

(* ------------------------------- C4 ------------------------------------ *)
\* C4: with state=absent, force=false, outside check mode, the step the loop
\* takes at a device of the inventory invokes "pvremove <dev>" if and only if
\* the device's pv_size equals its pv_free and its vg_name is empty; otherwise
\* the step invokes no command and ends the run with the refusal that names
\* the device and its group.
C4_GracefulStep ==
    AtListedDevice(FALSE) =>
        LET dev == dev_list[idx]
            rec == pvs_data[dev]
        IN IF rec.pv_size = rec.pv_free /\ rec.vg_name = ""
           THEN /\ \E rc \in ExitCodes :
                     cmds' = Append(cmds, Command("pvremove", <<>>, dev, rc))
                /\ result'.msg # RefuseMsg
           ELSE /\ cmds' = cmds
                /\ host' = host
                /\ pc' = "done"
                /\ result' = FailJson(RefuseMsg, dev, rec.vg_name, 0)

C4_GracefulIffUnused == [][C4_GracefulStep]_vars

\* a run removed an unused volume and then refused the next one, which has
\* equal sizes but a group
C4_Witness ==
    /\ pc = "done"
    /\ params.state = "absent"
    /\ ~params.force
    /\ result.kind = "fail"
    /\ result.msg = RefuseMsg
    /\ result.dev \in DOMAIN pvs_data
    /\ pvs_data[result.dev].pv_size = pvs_data[result.dev].pv_free
    /\ Len(Mutations) = 1
    /\ Mutations[1] = Command("pvremove", <<>>, dev_list[1], 0)

(* ------------------------------- C5 ------------------------------------ *)
\* C5: with state=absent, force=true, outside check mode, the step the loop
\* takes at a device of the inventory invokes "pvremove -ff -y <dev>" whatever
\* the device's group and sizes are, never refuses, and sets changed when the
\* command exits 0; a run that ends in success after such a step ends with
\* changed=true.
C5_ForcedStep ==
    AtListedDevice(TRUE) =>
        LET dev == dev_list[idx]
        IN /\ \E rc \in ExitCodes :
                /\ cmds' = Append(cmds, Command("pvremove", <<"-ff", "-y">>, dev, rc))
                /\ (rc = 0 => changed' /\ pc' = "reconcile" /\ idx' = idx + 1)
           /\ result'.msg # RefuseMsg

C5_ForcedEnd ==
    ( /\ pc = "done"
      /\ params.state = "absent"
      /\ params.force
      /\ ~params.check_mode
      /\ result.kind = "exit"
      /\ \E i \in 1..Len(dev_list) : dev_list[i] \in DOMAIN pvs_data )
    => result.changed

C5_ForcedRemoval == [][C5_ForcedStep]_vars /\ []C5_ForcedEnd

\* a volume in use by a group was removed with force and the run succeeded
C5_Witness ==
    /\ pc = "done"
    /\ params.force
    /\ result = ExitJson(TRUE)
    /\ \E i \in 1..Len(Mutations) :
          /\ Mutations[i] = Command("pvremove", <<"-ff", "-y">>, Mutations[i].dev, 0)
          /\ pvs_data[Mutations[i].dev].vg_name = "vg0"
          /\ pvs_data[Mutations[i].dev].pv_size # pvs_data[Mutations[i].dev].pv_free

(* ------------------------------- C6 ------------------------------------ *)
\* the positions of dev_list whose action is not NO-OP
NotNoop ==
    { i \in 1..Len(dev_list) :
        IF params.state = "present"
        THEN dev_list[i] \notin DOMAIN pvs_data
        ELSE dev_list[i] \in DOMAIN pvs_data }

\* C6: in check mode no pvcreate and no pvremove is ever invoked; a run that
\* has read the inventory ends with changed=true at the first device whose
\* action is not NO-OP, without going on to the devices after it, and with
\* changed=false, after the whole list, if there is no such device.
C6_DryRun ==
    params.check_mode =>
        /\ Mutations = <<>>
        /\ (pc = "done" /\ InventoryRead =>
              IF NotNoop = {}
              THEN result = ExitJson(FALSE) /\ idx = Len(dev_list) + 1
              ELSE /\ result = ExitJson(TRUE)
                   /\ idx \in NotNoop
                   /\ \A j \in NotNoop : idx <= j)

\* a check-mode run with force stopped at a volume in use, ahead of the last
\* device of its list
C6_Witness ==
    /\ pc = "done"
    /\ params.check_mode
    /\ params.state = "absent"
    /\ params.force
    /\ result = ExitJson(TRUE)
    /\ idx < Len(dev_list)
    /\ pvs_data[dev_list[idx]].vg_name = "vg0"

(* ------------------------------- C7 ------------------------------------ *)
\* C7: once a run has read the inventory, no key of the inventory and no
\* entry of the device list it is compared with has the /dev/dm- prefix, and
\* a requested device that holds a physical volume is a key of the inventory.
C7_MapperAlias ==
    InventoryRead =>
        /\ \A k \in DOMAIN pvs_data : ~StartsWith(k, dm_prefix)
        /\ \A i \in 1..Len(dev_list) : ~StartsWith(dev_list[i], dm_prefix)
        /\ (Mutations = <<>> =>
              \A i \in 1..Len(dev_list) :
                 RealPath(params.pvs[i]) \in DOMAIN host => dev_list[i] \in DOMAIN pvs_data)

(* ------------------------------- C8 ------------------------------------ *)
\* C8: a run without devices ends, with state=present, in the failure
\* "No physical volumes given." before any command, and with state=absent in
\* success with changed=false and no command.
C8_EmptyList ==
    (pc = "done" /\ params.pvs = <<>>) =>
        /\ cmds = <<>>
        /\ IF params.state = "present"
           THEN result = FailJson("No physical volumes given.", <<>>, "", 0)
           ELSE result = ExitJson(FALSE)

(* ------------------------------- C9 ------------------------------------ *)
\* C9 as stated: state=absent, force=false, one requested device whose record
\* has group "vg0": with pv_size = pv_free the run invokes the graceful
\* pvremove and, the command exiting 0, ends with changed=true; with
\* pv_size # pv_free it ends with the refusal naming "vg0".
C9_Vg0Example ==
    ( /\ pc = "done"
      /\ params.state = "absent"
      /\ ~params.force
      /\ ~params.check_mode
      /\ InventoryRead
      /\ Len(dev_list) = 1
      /\ dev_list[1] \in DOMAIN pvs_data
      /\ pvs_data[dev_list[1]].vg_name = "vg0" )
    => LET dev == dev_list[1]
       IN IF pvs_data[dev].pv_size = pvs_data[dev].pv_free
          THEN /\ Len(Mutations) = 1
               /\ Mutations[1].cmd = "pvremove"
               /\ (Mutations[1].rc = 0 => result = ExitJson(TRUE))
          ELSE result = FailJson(RefuseMsg, dev, "vg0", 0)

\* C9 as amended: with state=absent and force=false, outside check mode, a
\* device whose record has the group "vg0" is never removed, whatever its
\* sizes: no pvremove is invoked on it, the loop never gets past it, and the
\* run that reaches it ends with the refusal naming "vg0".
C9_Vg0Refused ==
    ( /\ params.state = "absent"
      /\ ~params.force
      /\ ~params.check_mode
      /\ InventoryRead )
    => /\ \A i \in 1..Len(Mutations) : pvs_data[Mutations[i].dev].vg_name # "vg0"
       /\ \A j \in 1..(idx - 1) :
             dev_list[j] \in DOMAIN pvs_data => pvs_data[dev_list[j]].vg_name # "vg0"
       /\ ( /\ pc = "done"
            /\ idx <= Len(dev_list)
            /\ dev_list[idx] \in DOMAIN pvs_data
            /\ pvs_data[dev_list[idx]].vg_name = "vg0" )
          => result = FailJson(RefuseMsg, dev_list[idx], "vg0", 0)

\* the run refused a single device of group "vg0" whose sizes are equal
C9_Witness ==
    /\ pc = "done"
    /\ Len(dev_list) = 1
    /\ result = FailJson(RefuseMsg, dev_list[1], "vg0", 0)
    /\ pvs_data[dev_list[1]].pv_size = pvs_data[dev_list[1]].pv_free
    /\ Mutations = <<>>

(* ------------------------------- C10 ----------------------------------- *)
\* C10: a state=present run whose list names a device that does not exist
\* never invokes a command (no listing, no pvcreate), never reaches the
\* inventory or the loop, and ends in the failure that names the first such
\* device, also when devices ahead of it exist.
C10_BatchCheck ==
    ( /\ params.state = "present"
      /\ \E i \in 1..Len(params.pvs) : RealPath(params.pvs[i]) \notin BlockDevices )
    => /\ cmds = <<>>
       /\ pc \in {"start", "done"}
       /\ (pc = "done" =>
             /\ result.kind = "fail"
             /\ result.msg = "Device %s not found."
             /\ result.dev \notin BlockDevices
             /\ \E i \in 1..Len(dev_list) :
                   /\ result.dev = dev_list[i]
                   /\ \A j \in 1..(i - 1) : dev_list[j] \in BlockDevices)

\* the run failed on its second device; the first exists and is no volume yet
C10_Witness ==
    /\ pc = "done"
    /\ params.state = "present"
    /\ Len(dev_list) >= 2
    /\ dev_list[1] \in BlockDevices
    /\ dev_list[1] \notin DOMAIN host
    /\ result = FailJson("Device %s not found.", dev_list[2], "", 0)
    /\ cmds = <<>>


(* ------------------------------- C11 ----------------------------------- *)
\* the devices among the first k entries of dev_list whose action is not NO-OP
Acted(k) ==
    SelectSeq(SubSeq(dev_list, 1, k),
              LAMBDA d : IF params.state = "present"
                         THEN d \notin DOMAIN pvs_data
                         ELSE d \in DOMAIN pvs_data)

\* the run ended in the failure of a step of the loop
StepFailed ==
    /\ pc = "done"
    /\ result.kind = "fail"
    /\ result.msg \in LoopMessages

C11_FailedRun ==
    StepFailed =>
        LET refused == (result.msg = RefuseMsg)
            n == Len(Mutations)
        IN /\ idx <= Len(dev_list)
           /\ result.dev = dev_list[idx]
           /\ ~result.changed
           \* commands for the failing device and the ones ahead of it only
           /\ MutatedDevs = Acted(IF refused THEN idx - 1 ELSE idx)
           \* all but the failing command exited 0
           /\ \A i \in 1..n : (Mutations[i].rc # 0) <=> (i = n /\ ~refused)
           /\ (~refused => n >= 1 /\ result.rc = Mutations[n].rc)
           \* nothing compensates: one direction only, and what was done stays
           /\ \A i \in 1..n :
                 Mutations[i].cmd = (IF params.state = "present" THEN "pvcreate" ELSE "pvremove")
           /\ \A i \in 1..n :
                 Mutations[i].rc = 0 =>
                    ((RealPath(Mutations[i].dev) \in DOMAIN host) <=> (params.state = "present"))

\* C11: when a step of the loop fails (pvcreate or pvremove exits non-zero, or
\* a removal is refused), the run ends at that device with a failure result:
\* commands were invoked only for that device and the ones ahead of it, no
\* success result is reported, no command undoes the earlier creations or
\* removals, which stay on the host, and the run takes no further step.
C11_FailFast ==
    /\ []C11_FailedRun
    /\ [][StepFailed => UNCHANGED vars]_vars

\* the first volume was removed, the removal of the second failed
C11_Witness ==
    /\ StepFailed
    /\ params.state = "absent"
    /\ result.msg = "Failed to remove physical volume %s"
    /\ idx = 2
    /\ Len(Mutations) = 2
    /\ Mutations[1].rc = 0
    /\ Mutations[1].dev \notin DOMAIN host
    /\ Mutations[2].rc # 0


(* ------------------------------- C12 ----------------------------------- *)
\* how many times the run has invoked the listing command
ListingCount == Cardinality({ i \in 1..Len(cmds) : cmds[i].cmd = "pvs" })
\* an inventory parse_pvs can build from a listing of the host as it is now
FreshInventories == { parse_pvs(Listing(host, style)) : style \in {"node", "alias"} }

C12_Once ==
    /\ ListingCount <= 1
    \* a run that got to the loop, or to a mutating command, listed exactly
    \* once, as its first command
    /\ (InventoryRead \/ Mutations # <<>> =>
           /\ ListingCount = 1
           /\ cmds[1] = Command("pvs", <<>>, <<>>, 0))
    \* until the first successful mutation the inventory is that of the host
    /\ (InventoryRead /\ (\A i \in 1..Len(Mutations) : Mutations[i].rc # 0) =>
           pvs_data \in FreshInventories)
    \* the commands follow the inventory, entry by entry
    /\ (pc = "reconcile" /\ ~params.check_mode => MutatedDevs = Acted(idx - 1))

\* C12: a run never invokes the listing command more than once; a run that
\* gets to the loop has invoked it exactly once, ahead of every pvcreate and
\* pvremove; the inventory is the host's before the first mutation and no step
\* of the loop changes it, so every device is decided on the pre-mutation
\* snapshot.
C12_Snapshot ==
    /\ []C12_Once
    /\ [][pc = "reconcile" => pvs_data' = pvs_data]_vars

\* a volume was removed and the second entry naming it was decided on the
\* inventory that still lists it
C12_Witness ==
    /\ params.state = "absent"
    /\ Len(Mutations) = 2
    /\ Mutations[1].rc = 0
    /\ Mutations[2].dev = Mutations[1].dev
    /\ pvs_data \notin FreshInventories
    /\ ListingCount = 1


(* ------------------------------- C13 ----------------------------------- *)
\* the message fail_json gives for a failed listing or diagnostic command
ToolMessage(c) ==
    IF c = "pvs" THEN "Failed executing pvs command."
    ELSE "Failed executing dmsetup command."

\* a listing or diagnostic command of the run exited non-zero
ToolFailed ==
    \E i \in 1..Len(cmds) : cmds[i].cmd \in {"pvs", "dmsetup"} /\ cmds[i].rc # 0

C13_Aborted ==
    \A i \in 1..Len(cmds) :
       (cmds[i].cmd \in {"pvs", "dmsetup"} /\ cmds[i].rc # 0) =>
          /\ i = Len(cmds)
          /\ pc = "done"
          /\ result = FailJson(ToolMessage(cmds[i].cmd), <<>>, "", cmds[i].rc)
          /\ Mutations = <<>>

\* C13: when pvs or dmsetup exits non-zero, that command is the last one of
\* the run: the run ends at once with the failure result carrying the command's
\* message and exit code, it has invoked no pvcreate and no pvremove, and it
\* takes no further step.
C13_ToolFailure ==
    /\ []C13_Aborted
    /\ [][ToolFailed => UNCHANGED vars]_vars

\* dmsetup failed in a state=present run that had a volume to create
C13_Witness ==
    /\ pc = "done"
    /\ params.state = "present"
    /\ ~params.check_mode
    /\ result.msg = "Failed executing dmsetup command."
    /\ Len(cmds) = 2
    /\ cmds[2].cmd = "dmsetup"
    /\ cmds[2].rc # 0
    /\ \E i \in 1..Len(dev_list) : dev_list[i] \in BlockDevices \ DOMAIN host


(* ------------------------------- C14 ----------------------------------- *)
\* C14: whatever the inputs, a run that has ended has ended with exactly one
\* structured result: the success result of exit_json, which carries changed,
\* or the failure result of fail_json, which carries a message.
C14_OneResult ==
    pc = "done" =>
        \/ result.kind = "exit" /\ result.changed \in BOOLEAN /\ result.msg = ""
        \/ result.kind = "fail" /\ result.msg # ""

(* ------------------------------- C15 ----------------------------------- *)
\* a mutating command of the run exited 0
Succeeded == \E i \in 1..Len(Mutations) : Mutations[i].rc = 0

C15_Changed ==
    ~params.check_mode =>
        /\ (InventoryRead => (changed <=> Succeeded))
        /\ (pc = "done" /\ result.kind = "exit" => (result.changed <=> Succeeded))

\* C15: outside check mode the success result carries changed=true if and
\* only if a pvcreate or a pvremove of the run exited 0 (changed itself is
\* true exactly then, at every point of the loop), and within a run changed
\* never goes from true back to false.
C15_ChangedIff ==
    /\ []C15_Changed
    /\ [][changed /\ run' = run => changed']_vars

\* a run with one entry to remove and one entry that needs nothing
C15_Witness ==
    /\ pc = "done"
    /\ ~params.check_mode
    /\ params.state = "absent"
    /\ result.kind = "exit"
    /\ result.changed
    /\ Len(dev_list) = 2
    /\ Len(Mutations) = 1
    /\ Mutations[1].dev = dev_list[1]
    /\ Mutations[1].rc = 0


(* ------------------------------- C16 ----------------------------------- *)
\* the requested list with every symlink replaced by its target
NormalizedRequest ==
    [i \in 1..Len(params.pvs) |->
        IF params.pvs[i] \in DOMAIN Symlinks THEN Symlinks[params.pvs[i]] ELSE params.pvs[i]]

\* s is t with some entries left out: the entries of s are entries of t, in
\* the order of t, each entry of t used at most once
IsSubsequence(s, t) ==
    \E f \in [1..Len(s) -> 1..Len(t)] :
       /\ \A i \in 1..Len(s) : s[i] = t[f[i]]
       /\ \A i, j \in 1..Len(s) : i < j => f[i] < f[j]

C16_Requested ==
    /\ (pc # "start" /\ params.pvs # <<>> => dev_list = NormalizedRequest)
    /\ IsSubsequence(MutatedDevs, NormalizedRequest)
    /\ \A i \in 1..Len(Mutations) :
          Mutations[i].cmd = (IF params.state = "present" THEN "pvcreate" ELSE "pvremove")

\* no step changes the volume, or its absence, on a device that is not requested
C16_HostFrame ==
    \A d \in BlockDevices :
       (\A i \in 1..Len(NormalizedRequest) : NormalizedRequest[i] # d) =>
          /\ (d \in DOMAIN host') = (d \in DOMAIN host)
          /\ (d \in DOMAIN host => host'[d] = host[d])

\* C16: the devices of the pvcreate/pvremove commands of a run are entries of
\* the normalized requested list, in list order, at most one command per
\* entry; a state=present run invokes pvcreate only and a state=absent run
\* pvremove only; the volumes of devices that are not requested stay as they
\* are.
C16_Frame ==
    /\ []C16_Requested
    /\ [][C16_HostFrame]_vars

\* two requested devices, the first named through a symlink, were created in
\* list order while a third device kept its volume
C16_Witness ==
    /\ pc = "done"
    /\ params.state = "present"
    /\ Len(params.pvs) = 2
    /\ params.pvs[1] \in DOMAIN Symlinks
    /\ Len(Mutations) = 2
    /\ MutatedDevs = NormalizedRequest
    /\ Mutations[1].dev # Mutations[2].dev
    /\ \E d \in DOMAIN host : \A i \in 1..Len(dev_list) : dev_list[i] # d


(* ------------------------------- C17 ----------------------------------- *)
(* after a check-mode run that ended in success, the same task is run with
   check mode off; the check-mode run has left the host as it was *)
Apply ==
    /\ pc = "done"
    /\ result.kind = "exit"
    /\ params.check_mode
    /\ run < MaxRuns
    /\ run' = run + 1
    /\ prev' = result
    /\ params' = [params EXCEPT !.check_mode = FALSE]
    /\ pc' = "start"
    /\ dev_list' = <<>>
    /\ pvs_data' = <<>>
    /\ idx' = 1
    /\ changed' = FALSE
    /\ cmds' = <<>>
    /\ result' = NoResult
    /\ UNCHANGED host

NextApply ==
    \/ Validate
    \/ Inventory
    \/ ReconcilePresent
    \/ ReconcileAbsent
    \/ Finish
    \/ Apply

\* a task is run in check mode or not; a successful check-mode run is followed
\* by the real run
SpecApply == Init /\ [][NextApply]_vars

\* the real run that follows a check-mode run has read the inventory
AppliedRun == run >= 2 /\ ~params.check_mode /\ InventoryRead
AllSucceeded == \A i \in 1..Len(cmds) : cmds[i].rc = 0

\* C17 as stated: when the check-mode run reported changed=false, the real run
\* on the same inputs and inventory invokes no mutating command and reports
\* changed=false; when it reported changed=true, the real run in which every
\* command exits 0 ends with changed=true.
C17_CheckAgrees ==
    AppliedRun =>
        /\ (~prev.changed =>
               /\ Mutations = <<>>
               /\ (pc = "done" => result = ExitJson(FALSE)))
        /\ (prev.changed /\ pc = "done" /\ AllSucceeded =>
               result = ExitJson(TRUE))

\* C17 as amended: as stated, except that after changed=true of the check-mode
\* run the real run in which every command exits 0 ends with changed=true or,
\* with state=absent and force=false, with the refusal to remove a listed
\* volume that is in use.
C17_CheckAgreesOrRefuses ==
    AppliedRun =>
        /\ (~prev.changed =>
               /\ Mutations = <<>>
               /\ (pc = "done" => result = ExitJson(FALSE)))
        /\ (prev.changed /\ pc = "done" /\ AllSucceeded =>
               \/ result = ExitJson(TRUE)
               \/ /\ params.state = "absent"
                  /\ ~params.force
                  /\ idx <= Len(dev_list)
                  /\ dev_list[idx] \in DOMAIN pvs_data
                  /\ ~( /\ pvs_data[dev_list[idx]].pv_size = pvs_data[dev_list[idx]].pv_free
                        /\ pvs_data[dev_list[idx]].vg_name = "" )
                  /\ result = FailJson(RefuseMsg, dev_list[idx],
                                       pvs_data[dev_list[idx]].vg_name, 0))

\* check mode reported changed=true and the real run refused, changing nothing
C17_Witness ==
    /\ AppliedRun
    /\ pc = "done"
    /\ prev = ExitJson(TRUE)
    /\ result.msg = RefuseMsg
    /\ Mutations = <<>>

====
